---- MODULE Spec2Model ----
(***************************************************************************)
(* Model of the ingestion / deduplication engine and of the source         *)
(* scheduler of reddit_downloader (src/src/reddit_downloader/downloader.py,*)
(* schema from migration.py).                                              *)
(*                                                                         *)
(* The MySQL tables are sets of rows with AUTO_INCREMENT ids; the download *)
(* folder is a set of files; the upstream listing API, the HTTP responses  *)
(* and ffmpeg are nondeterministic inputs of the actions.                  *)
(***************************************************************************)
EXTENDS Integers, Sequences, FiniteSets, TLC

(* ----------------------------- bounds ---------------------------------- *)
\* total number of download_image calls in a behaviour
MaxDownloads == 2
\* longest upstream listing / explicit URL batch
MaxListing == 1
\* longest upstream listing of the listing scan specification
MaxScan == 3
\* number of scheduler passes plus manual polls in a behaviour of SpecSched
MaxPolls == 4
\* largest value of the wall clock
MaxClock == 2

(* ------------------------ program constants ---------------------------- *)
\* backoff_threshold fallback of scrape_from_config_list
BackoffThreshold == 3

NoUrl == "none"
NoId == "noid"
NoPost == [permalink |-> "", rid |-> NoId, url |-> NoUrl, all_urls |-> <<>>]
NoRow == 0
NoProbes == << >>
NeverScraped == 0

(* ------------------------- upstream catalogue -------------------------- *)
\* origin URLs the upstream can hand out: host, last path segment split into
\* stem and extension, whether the stem is "generic" for download_image
\* (contains DASH_/DASHPlaylist/audio/video or is shorter than 5 characters),
\* the v.redd.it video id ("" when the URL has none), and whether the last
\* path segment contains "_deleted".
UrlInfo ==
  [ua |-> [host |-> "i.example", base |-> "photo1", ext |-> "jpg", generic |-> FALSE, vid |-> "",
           marked |-> FALSE],
   ub |-> [host |-> "j.example", base |-> "photo1", ext |-> "jpg", generic |-> FALSE, vid |-> "",
           marked |-> FALSE],
   ug |-> [host |-> "i.example", base |-> "anim1", ext |-> "gif", generic |-> FALSE, vid |-> "",
           marked |-> FALSE],
   uv |-> [host |-> "v.redd.it", base |-> "DASH_720", ext |-> "mp4", generic |-> TRUE, vid |-> "vid1",
           marked |-> FALSE],
   um |-> [host |-> "i.example", base |-> "photo2", ext |-> "jpg", generic |-> FALSE, vid |-> "",
           marked |-> TRUE],
   ut |-> [host |-> "t.example", base |-> "story", ext |-> "html", generic |-> FALSE, vid |-> "",
           marked |-> FALSE]]

Urls == DOMAIN UrlInfo

\* bytes a fetch can return, named by their md5
Hashes == {"h1", "h2"}

image_extensions == {"jpg", "jpeg", "png", "gif", "bmp", "webp"}
image_domains == {"imgur.com", "i.imgur.com", "i.redd.it", "preview.redd.it"}
video_extensions == {"mp4", "webm", "mov", "avi", "mkv", "flv", "wmv"}
video_domains == {"v.redd.it", "reddit.com/video"}

IsImageUrl(u) ==
  \/ UrlInfo[u].ext \in image_extensions
  \/ UrlInfo[u].host \in image_domains

IsVideoUrl(u) ==
  \/ UrlInfo[u].ext \in video_extensions
  \/ UrlInfo[u].host \in video_domains

\* upstream post records: permalink, the id its permalink carries
\* (/comments/<id>/), is_self, primary url, media.reddit_video.fallback_url,
\* and the gallery items (media_metadata status, e, s.u and s.mp4 of each item).
Catalogue ==
  [pa |-> [permalink |-> "pa", rid |-> "ida", is_self |-> FALSE, url |-> "ua",
           fallback |-> NoUrl, items |-> <<>>],
   pb |-> [permalink |-> "pb", rid |-> "idb", is_self |-> FALSE, url |-> "ub",
           fallback |-> NoUrl, items |-> <<>>],
   pf |-> [permalink |-> "pf", rid |-> "idf", is_self |-> FALSE, url |-> "ug",
           fallback |-> NoUrl, items |-> <<>>],
   pv |-> [permalink |-> "pv", rid |-> "idv", is_self |-> FALSE, url |-> "uv",
           fallback |-> "uv", items |-> <<>>],
   pg |-> [permalink |-> "pg", rid |-> "idg", is_self |-> FALSE, url |-> "ug",
           fallback |-> "uv",
           items |-> << [status |-> "valid", e |-> "Image", u |-> "ua", mp4 |-> NoUrl],
                        [status |-> "valid", e |-> "Image", u |-> "ub", mp4 |-> NoUrl],
                        [status |-> "invalid", e |-> "Image", u |-> "ug", mp4 |-> NoUrl] >>],
   pe |-> [permalink |-> "pe", rid |-> "ide", is_self |-> FALSE, url |-> "ua",
           fallback |-> NoUrl,
           items |-> << [status |-> "valid", e |-> "Image", u |-> NoUrl, mp4 |-> NoUrl] >>],
   ps |-> [permalink |-> "ps", rid |-> "ids", is_self |-> TRUE, url |-> "ua",
           fallback |-> NoUrl, items |-> <<>>],
   pm |-> [permalink |-> "pm", rid |-> "idm", is_self |-> FALSE, url |-> "um",
           fallback |-> NoUrl, items |-> <<>>],
   pn |-> [permalink |-> "pn", rid |-> "idn", is_self |-> FALSE, url |-> "um",
           fallback |-> NoUrl, items |-> <<>>],
   pw |-> [permalink |-> "pw", rid |-> "idw", is_self |-> FALSE, url |-> "ua",
           fallback |-> NoUrl,
           items |-> << [status |-> "valid", e |-> "RedditVideo", u |-> NoUrl,
                         mp4 |-> "uv"] >>],
   px |-> [permalink |-> "px", rid |-> "idx", is_self |-> FALSE, url |-> "ua",
           fallback |-> "uv",
           items |-> << [status |-> "invalid", e |-> "Image", u |-> "ub",
                         mp4 |-> NoUrl] >>],
   pt |-> [permalink |-> "pt", rid |-> "idt", is_self |-> FALSE, url |-> "ut",
           fallback |-> NoUrl, items |-> <<>>],
   ph |-> [permalink |-> "ph", rid |-> "idh", is_self |-> FALSE, url |-> "ut",
           fallback |-> NoUrl,
           items |-> << [status |-> "valid", e |-> "Image", u |-> "ua",
                         mp4 |-> NoUrl] >>]]

PostNames == DOMAIN Catalogue

\* scrape_lists rows: name -> type
SourceType == [sa |-> "subreddit", sb |-> "subreddit", usr |-> "user"]
Sources == DOMAIN SourceType

(* ------------------------------ state ---------------------------------- *)
VARIABLES
  posts,          \* table posts: rows [id, reddit_id, permalink, subreddit]
  permalinks,     \* table permalinks: the set of processed permalinks
  images,         \* table images: rows [id, file_hash, filename, file_path, is_deleted]
  post_images,    \* table post_images: rows [id, post_id, image_id, url]
  nextId,         \* AUTO_INCREMENT counters [posts, images, post_images]
  disk,           \* files of the download folder: rows [path, data]
  absFolder,      \* config: general.download_folder is an absolute path
  scrape_lists,   \* table scrape_lists: name -> [enabled, last_scraped_at, zero_result_count]
  now,            \* wall clock (CURRENT_TIMESTAMP, datetime.now())
  feed,           \* posts the upstream listing API can return
  mode,           \* the operation in progress: "idle", "direct", "manual", "sched",
                  \* "check"
  cur,            \* the source being polled ("" when none)
  work,           \* download_from_urls: the (url, post_data) items still to fetch
  successful,     \* download_from_urls: the counter it returns
  passTodo,       \* scrape_from_config_list: list types still to select
  passQueue,      \* scrape_from_config_list: selected sources still to poll
  selection,      \* result of the last get_scrape_lists_from_db call
  polls,          \* number of scheduler passes started
  denied,         \* the poll in progress was refused by the upstream (403)
  probes,         \* check_deleted_images: the outcome of each HEAD request of the
                  \* call in progress, by post_images id (empty otherwise)
  fetched,        \* history: the listing a poll of a long listing has just got
                  \* from the upstream (sub.new, submissions.new); <<>> otherwise
  log             \* history: one event per download_image call

vars == << posts, permalinks, images, post_images, nextId, disk, absFolder,
           scrape_lists, now, feed, mode, cur, work, successful, passTodo,
           passQueue, selection, polls, denied, probes, fetched, log >>

dbVars == << posts, permalinks, images, post_images, nextId, disk >>
schedVars == << scrape_lists, passTodo, passQueue, selection, polls, denied >>

(* --------------------------- URL resolution ---------------------------- *)
\* ','.join(urls): the joined string as a sequence of tokens
RECURSIVE JoinUrls(_)
JoinUrls(urls) ==
  IF urls = <<>> THEN <<>>
  ELSE IF Len(urls) = 1 THEN << urls[1] >>
  ELSE << urls[1], "," >> \o JoinUrls(Tail(urls))

\* [u.strip() for u in s.split(',') if u.strip()]
RECURSIVE SplitUrls(_)
SplitUrls(tokens) ==
  IF tokens = <<>> THEN <<>>
  ELSE IF tokens[1] = "," THEN SplitUrls(Tail(tokens))
  ELSE << tokens[1] >> \o SplitUrls(Tail(tokens))

\* _extract_gallery_urls: s.u of every item whose status is "valid"
RECURSIVE GalleryOf(_)
GalleryOf(items) ==
  IF items = <<>> THEN <<>>
  ELSE LET it == items[1]
       IN (IF it.status = "valid" /\ it.u # NoUrl THEN << it.u >> ELSE <<>>)
          \o GalleryOf(Tail(items))

ExtractGalleryUrls(post) == GalleryOf(post.items)

\* _extract_video_url, media_metadata loop: the source of the first valid
\* RedditVideo item that looks like a video
RECURSIVE MetadataVideo(_)
MetadataVideo(items) ==
  IF items = <<>> THEN NoUrl
  ELSE LET it == items[1]
           video_url == IF it.mp4 # NoUrl THEN it.mp4 ELSE it.u
       IN IF it.status = "valid" /\ it.e = "RedditVideo"
             /\ video_url # NoUrl /\ IsVideoUrl(video_url)
            THEN video_url
            ELSE MetadataVideo(Tail(items))

\* faulty variant of ExtractVideoUrl: the fallback URL is not looked at
ExtractVideoUrlPrimary(post) ==
  IF post.url # NoUrl /\ IsVideoUrl(post.url) THEN post.url
  ELSE MetadataVideo(post.items)

\* _extract_video_url: the fallback URL, else a video-looking primary URL,
\* else a video of media_metadata
ExtractVideoUrl(post) ==
  IF post.fallback # NoUrl THEN post.fallback
  ELSE IF post.url # NoUrl /\ IsVideoUrl(post.url) THEN post.url
  ELSE MetadataVideo(post.items)

\* faulty variant of PostEntry: the entry carries the post's primary URL and
\* no gallery list
PostEntryPrimary(post, url, gallery) ==
  [permalink |-> post.permalink, rid |-> post.rid, url |-> post.url,
   all_urls |-> <<>>]

\* the post entry both listing functions append to their batch
PostEntry(post, url, gallery) ==
  [permalink |-> post.permalink, rid |-> post.rid, url |-> url,
   all_urls |-> JoinUrls(gallery)]

\* faulty variant of IsPostDownloaded: the posts table is asked, so a purged
\* post counts as new
IsPostInPosts(permalink) ==
  permalink # "" /\ \E p \in posts : p.permalink = permalink

\* _is_post_downloaded
IsPostDownloaded(permalink) == permalink # "" /\ permalink \in permalinks

\* _get_image_record: the images rows joined to a post_images row of this url
ImageRecords(url) ==
  { i \in images : \E l \in post_images : l.url = url /\ l.image_id = i.id }

\* faulty variant of SubredditBatch: a post whose URL has a record is passed
\* over and the scan goes on
RECURSIVE SubredditBatchNoStop(_)
SubredditBatchNoStop(listing) ==
  IF listing = <<>> THEN <<>>
  ELSE LET post == Catalogue[listing[1]]
           rest == Tail(listing)
           gallery == ExtractGalleryUrls(post)
           video == ExtractVideoUrl(post)
       IN IF post.is_self THEN SubredditBatchNoStop(rest)
          ELSE IF IsPostDownloaded(post.permalink) THEN SubredditBatchNoStop(rest)
          ELSE IF gallery # <<>>
            THEN << PostEntry(post, gallery[1], gallery) >> \o SubredditBatchNoStop(rest)
          ELSE IF video # NoUrl
            THEN IF ImageRecords(video) # {} THEN SubredditBatchNoStop(rest)
                 ELSE << PostEntry(post, video, <<>>) >> \o SubredditBatchNoStop(rest)
          ELSE IF IsImageUrl(post.url)
            THEN IF ImageRecords(post.url) # {} THEN SubredditBatchNoStop(rest)
                 ELSE << PostEntry(post, post.url, <<>>) >> \o SubredditBatchNoStop(rest)
          ELSE SubredditBatchNoStop(rest)

\* get_image_urls_from_subreddit: the loop over the listing, with its break
RECURSIVE SubredditBatch(_)
SubredditBatch(listing) ==
  IF listing = <<>> THEN <<>>
  ELSE LET post == Catalogue[listing[1]]
           rest == Tail(listing)
           gallery == ExtractGalleryUrls(post)
           video == ExtractVideoUrl(post)
       IN IF post.is_self THEN SubredditBatch(rest)
          ELSE IF IsPostDownloaded(post.permalink) THEN SubredditBatch(rest)
          ELSE IF gallery # <<>>
            THEN << PostEntry(post, gallery[1], gallery) >> \o SubredditBatch(rest)
          ELSE IF video # NoUrl
            THEN IF ImageRecords(video) # {} THEN <<>>
                 ELSE << PostEntry(post, video, <<>>) >> \o SubredditBatch(rest)
          ELSE IF IsImageUrl(post.url)
            THEN IF ImageRecords(post.url) # {} THEN <<>>
                 ELSE << PostEntry(post, post.url, <<>>) >> \o SubredditBatch(rest)
          ELSE SubredditBatch(rest)

\* download_from_user: the entry built for a submission that has media
UserEntry(post) ==
  LET gallery == ExtractGalleryUrls(post)
      video == ExtractVideoUrl(post)
  IN PostEntry(post,
               IF gallery # <<>> THEN gallery[1]
               ELSE IF video # NoUrl THEN video ELSE post.url,
               gallery)

\* download_from_user: the loop over the submissions (no early stop)
RECURSIVE UserBatch(_)
UserBatch(listing) ==
  IF listing = <<>> THEN <<>>
  ELSE LET post == Catalogue[listing[1]]
           rest == Tail(listing)
           gallery == ExtractGalleryUrls(post)
           video == ExtractVideoUrl(post)
       IN IF post.is_self THEN UserBatch(rest)
          ELSE IF IsPostDownloaded(post.permalink) THEN UserBatch(rest)
          ELSE IF gallery = <<>> /\ ~IsImageUrl(post.url) /\ video = NoUrl
            THEN UserBatch(rest)
          ELSE << UserEntry(post) >> \o UserBatch(rest)

(* ------------------------- index and file system ----------------------- *)
Db == [posts |-> posts, permalinks |-> permalinks, images |-> images,
       post_images |-> post_images, nextId |-> nextId, disk |-> disk]

FileExists(d, path) == \E f \in d.disk : f.path = path

\* open(path, 'wb') ... write: the file at path now holds exactly these bytes
WriteFile(d, path, data) ==
  [d EXCEPT !.disk = { f \in @ : f.path # path } \cup {[path |-> path, data |-> data]}]

\* os.remove
RemoveFileAt(d, path) == [d EXCEPT !.disk = { f \in @ : f.path # path }]

\* Path.rename: the file moves, replacing whatever the target held
RenameFile(d, from, to) ==
  LET f == CHOOSE x \in d.disk : x.path = from
  IN [d EXCEPT !.disk = { x \in @ : x.path # from /\ x.path # to }
                          \cup {[path |-> to, data |-> f.data]}]

\* download_image's existing_filepath: a stored path that is not absolute is
\* resolved against the download folder once more
ExistingFilepath(file_path) ==
  IF absFolder THEN file_path ELSE [file_path EXCEPT !.pre = @ + 1]

\* _get_image_by_hash
ImageByHash(d, h) == { i \in d.images : i.file_hash = h }

\* INSERT INTO posts ... ON DUPLICATE KEY UPDATE (reddit_id and permalink are
\* UNIQUE), then INSERT IGNORE INTO permalinks
UpsertPost(d, pd, subreddit) ==
  LET dup == { r \in d.posts : \/ r.permalink = pd.permalink
                               \/ (pd.rid # NoId /\ r.reddit_id = pd.rid) }
      row == [id |-> d.nextId.posts, reddit_id |-> pd.rid,
              permalink |-> pd.permalink, subreddit |-> subreddit]
      d1 == IF dup = {}
              THEN [d EXCEPT !.posts = @ \cup {row}, !.nextId.posts = @ + 1]
              ELSE d
  IN IF pd.permalink # "" THEN [d1 EXCEPT !.permalinks = @ \cup {pd.permalink}]
     ELSE d1

\* the post_id _save_image_metadata ends with: cursor.lastrowid is that of
\* the permalinks insert (a table without AUTO_INCREMENT id, so 0), hence the
\* id is fetched with SELECT id FROM posts WHERE permalink = %s
ResolvePostId(d, pd) ==
  LET hit == { r \in d.posts : r.permalink = pd.permalink }
  IN IF hit = {} THEN NoRow ELSE (CHOOSE r \in hit : TRUE).id

\* INSERT INTO images ... ON DUPLICATE KEY UPDATE file_path (file_hash UNIQUE)
UpsertImage(d, file_hash, filename, filepath) ==
  LET dup == ImageByHash(d, file_hash)
      row == [id |-> d.nextId.images, file_hash |-> file_hash,
              filename |-> filename, file_path |-> filepath, is_deleted |-> FALSE]
  IN IF dup = {}
       THEN [d EXCEPT !.images = @ \cup {row}, !.nextId.images = @ + 1]
       ELSE [d EXCEPT !.images =
               { IF i \in dup THEN [i EXCEPT !.file_path = filepath] ELSE i : i \in @ }]

ResolveImageId(d, file_hash) ==
  LET hit == ImageByHash(d, file_hash)
  IN IF hit = {} THEN NoRow ELSE (CHOOSE r \in hit : TRUE).id

\* faulty variant of InsertLinkIgnore: a plain INSERT on a table without the
\* unique key
InsertLinkAlways(d, post_id, image_id, url) ==
  [d EXCEPT !.post_images = @ \cup {[id |-> d.nextId.post_images,
                                     post_id |-> post_id,
                                     image_id |-> image_id, url |-> url]},
            !.nextId.post_images = @ + 1]

\* INSERT IGNORE INTO post_images: UNIQUE KEY unique_post_image (post_id, image_id)
InsertLinkIgnore(d, post_id, image_id, url) ==
  IF \E l \in d.post_images : l.post_id = post_id /\ l.image_id = image_id
    THEN d
    ELSE [d EXCEPT !.post_images = @ \cup {[id |-> d.nextId.post_images,
                                           post_id |-> post_id,
                                           image_id |-> image_id, url |-> url]},
                   !.nextId.post_images = @ + 1]

\* faulty variant of BothResolved: the post id is not tested
ImageResolved(post_id, image_id) == image_id # NoRow

\* _save_image_metadata: "if post_id and image_id"
BothResolved(post_id, image_id) == post_id # NoRow /\ image_id # NoRow

\* _save_image_metadata
SaveImageMetadata(d, url, filename, subreddit, pd, filepath, file_hash) ==
  LET d1 == IF pd # NoPost THEN UpsertPost(d, pd, subreddit) ELSE d
      post_id == IF pd # NoPost THEN ResolvePostId(d1, pd) ELSE NoRow
      d2 == UpsertImage(d1, file_hash, filename, filepath)
      image_id == ResolveImageId(d2, file_hash)
  IN IF BothResolved(post_id, image_id)
       THEN InsertLinkIgnore(d2, post_id, image_id, url)
       ELSE d2

\* _update_file_path_in_db
UpdateFilePathInDb(d, url, new_filepath) ==
  [d EXCEPT !.images =
     { IF \E l \in d.post_images : l.url = url /\ l.image_id = i.id
         THEN [i EXCEPT !.file_path = new_filepath] ELSE i : i \in @ }]

(* ----------------------------- download_image -------------------------- *)
NoRecord == [id |-> NoRow]

\* the unique id appended to a generic file name
UniqueId(url, pd) ==
  IF pd # NoPost /\ pd.rid # NoId THEN pd.rid
  ELSE IF UrlInfo[url].host = "v.redd.it" /\ UrlInfo[url].vid # "" THEN UrlInfo[url].vid
  ELSE url

\* the file name download_image chooses (lines 235-298)
ChooseFilename(d, url, subreddit, pd, prev) ==
  LET info == UrlInfo[url]
      n0 == [base |-> info.base, uid |-> "", ts |-> 0, ext |-> info.ext,
             marked |-> info.marked]
      n1 == IF info.generic THEN [n0 EXCEPT !.uid = UniqueId(url, pd)] ELSE n0
      temp_path == [pre |-> 1, dir |-> subreddit, name |-> n1]
  IN IF prev # NoRecord THEN prev.filename
     ELSE IF FileExists(d, temp_path) THEN [n1 EXCEPT !.ts = now]
     ELSE n1

\* GIF branch (lines 319-355): ffmpeg writes the .mp4 at the same stem, the
\* GIF is removed and the .mp4 is indexed; when ffmpeg fails nothing is saved
GifBranch(d, url, filename, subreddit, pd, filepath, h, conv) ==
  LET mp4_name == [filename EXCEPT !.ext = "mp4"]
      mp4_path == [filepath EXCEPT !.name = mp4_name]
      d1 == RemoveFileAt(WriteFile(d, mp4_path, [kind |-> "mp4", h |-> h]), filepath)
  IN IF conv
       THEN [d |-> SaveImageMetadata(d1, url, mp4_name, subreddit, pd, mp4_path, h),
             filename |-> mp4_name, filepath |-> mp4_path]
       ELSE [d |-> d, filename |-> filename, filepath |-> filepath]

\* deduplication branch (lines 359-392)
DedupBranch(d, url, filename, subreddit, pd, filepath, h) ==
  LET existing == ImageByHash(d, h)
      e == CHOOSE x \in existing : TRUE
      existing_filepath == ExistingFilepath(e.file_path)
      dup == existing # {} /\ FileExists(d, existing_filepath)
      d1 == IF dup THEN RemoveFileAt(d, filepath) ELSE d
      fp == IF dup THEN existing_filepath ELSE filepath
      fn == IF dup THEN e.filename ELSE filename
  IN [d |-> SaveImageMetadata(d1, url, fn, subreddit, pd, fp, h),
      filename |-> fn, filepath |-> fp]

\* restore branch (lines 406-417); ok is FALSE when Path.rename raises
RestoreBranch(r, url, prev) ==
  IF prev # NoRecord /\ prev.is_deleted /\ r.filename.marked
    THEN LET new_filename == [r.filename EXCEPT !.marked = FALSE]
             new_filepath == [r.filepath EXCEPT !.name = new_filename]
         IN IF FileExists(r.d, r.filepath)
              THEN [d |-> UpdateFilePathInDb(RenameFile(r.d, r.filepath, new_filepath),
                                             url, new_filepath),
                    ok |-> TRUE]
              ELSE [d |-> r.d, ok |-> FALSE]
    ELSE [d |-> r.d, ok |-> TRUE]

\* what the GET of download_image can do: serve the whole body, raise before
\* a byte is written (connection error, HTTP error status), or break while the
\* body is streamed into the file
NetOutcomes == {"ok", "refused", "broken"}

\* the content of a file whose byte stream broke off
PartialData == [kind |-> "partial", h |-> "none"]

\* download_image(url, subreddit=..., post_data=...): the index and disk it
\* leaves and the boolean it returns.  prev is the row _get_image_record
\* returned (NoRecord for None); net is what the GET does; h are the bytes
\* served; conv is FALSE when ffmpeg fails.
DownloadImage(d, url, subreddit, pd, prev, net, h, conv) ==
  IF net = "refused" THEN [d |-> d, ok |-> FALSE]
  ELSE LET filename == ChooseFilename(d, url, subreddit, pd, prev)
           filepath == [pre |-> 1, dir |-> subreddit, name |-> filename]
           d1 == WriteFile(d, filepath, [kind |-> "raw", h |-> h])
       IN IF net = "broken"
            THEN [d |-> WriteFile(d, filepath, PartialData), ok |-> FALSE]
            ELSE LET r == IF filename.ext = "gif"
                            THEN GifBranch(d1, url, filename, subreddit, pd,
                                           filepath, h, conv)
                            ELSE DedupBranch(d1, url, filename, subreddit, pd,
                                             filepath, h)
                 IN RestoreBranch(r, url, prev)

(* ------------------------------ scheduler ------------------------------ *)
\* ORDER BY name ASC over the source names of the model
NameRank == [sa |-> 1, sb |-> 2, usr |-> 3]

\* faulty variant of SortsBefore: ORDER BY name only
SortsBeforeByName(a, b) == NameRank[a] < NameRank[b]

\* ORDER BY last_scraped_at ASC, name ASC (MySQL sorts NULL first)
SortsBefore(a, b) ==
  \/ scrape_lists[a].last_scraped_at < scrape_lists[b].last_scraped_at
  \/ /\ scrape_lists[a].last_scraped_at = scrape_lists[b].last_scraped_at
     /\ NameRank[a] < NameRank[b]

RECURSIVE OrderRows(_)
OrderRows(S) ==
  IF S = {} THEN <<>>
  ELSE LET first == CHOOSE a \in S : \A b \in S \ {a} : SortsBefore(a, b)
       IN << first >> \o OrderRows(S \ {first})

\* WHERE type = %s AND enabled = TRUE
SelectedRows(list_type) ==
  { s \in Sources : SourceType[s] = list_type /\ scrape_lists[s].enabled }

\* get_scrape_lists_from_db: every selected row is appended (the backoff
\* test on zero_result_count is commented out in the source)
GetScrapeListsFromDb(list_type, backoff_threshold) ==
  OrderRows(SelectedRows(list_type))

\* update_last_scraped_at
UpdateLastScrapedAt(sl, name, t) == [sl EXCEPT ![name].last_scraped_at = t]

\* increment_zero_result_count
IncrementZeroResultCount(sl, name) == [sl EXCEPT ![name].zero_result_count = @ + 1]

\* reset_zero_result_count
ResetZeroResultCount(sl, name) == [sl EXCEPT ![name].zero_result_count = 0]

\* scrape_from_config_list, lines 789-802 and 821-833: after a poll returned
TrackResult(sl, name, downloaded, t) ==
  LET sl1 == UpdateLastScrapedAt(sl, name, t)
  IN IF downloaded = 0 THEN IncrementZeroResultCount(sl1, name)
     ELSE ResetZeroResultCount(sl1, name)

(* ------------------------------ inputs --------------------------------- *)
\* what the upstream holds in one behaviour: a few posts of the catalogue
Worlds == { {"pa", "pg"}, {"pf", "ps"}, {"pe", "pv"}, {"pa", "pb"} }

\* listings the upstream can return: distinct posts of the feed
Listings ==
  { l \in UNION { [1..n -> feed] : n \in 0..MaxListing } :
      \A i, j \in 1..Len(l) : i # j => l[i] # l[j] }

\* the batch a poll of this source builds from a listing
BatchOf(source, listing) ==
  IF SourceType[source] = "subreddit" THEN SubredditBatch(listing)
  ELSE UserBatch(listing)

\* download_from_urls: items for urls and url_data (<<>> for None)
RECURSIVE WorkItems(_, _, _)
WorkItems(urls, url_data, i) ==
  IF i > Len(urls) THEN <<>>
  ELSE LET pd == IF i <= Len(url_data) THEN url_data[i] ELSE NoPost
           us == IF pd # NoPost /\ pd.all_urls # <<>>
                   THEN SplitUrls(pd.all_urls) ELSE << urls[i] >>
       IN [k \in 1..Len(us) |->
             [url |-> us[k], pd |-> pd, known |-> IsPostDownloaded(pd.permalink)]]
          \o WorkItems(urls, url_data, i + 1)

UrlsOf(entries) == [i \in 1..Len(entries) |-> entries[i].url]

\* explicit batches: one URL alone (the --urls command line), or the URL
\* with the post entry a listing would carry for it
DirectBatches ==
  UNION { { [urls |-> << UserEntry(Catalogue[p]).url >>,
             url_data |-> << UserEntry(Catalogue[p]) >>],
            [urls |-> << UserEntry(Catalogue[p]).url >>, url_data |-> <<>>] } :
          p \in { q \in feed : ~Catalogue[q].is_self } }

\* names given to --subreddit / --user on the command line
ManualSources == {"sa", "usr"}

\* the wall clock an operation reads: time has passed, or not yet a second
ClockReadings == { t \in {now, now + 1} : t <= MaxClock }

\* bytes a fetch may serve: the hashes are interchangeable, so a hash not
\* seen so far is taken in a fixed order
SeenHashes == { log[i].h : i \in 1..Len(log) }
FetchHashes == IF SeenHashes = {} THEN {"h1"} ELSE Hashes

(* ------------------------------ actions -------------------------------- *)
InitIndex ==
  /\ posts = {} /\ permalinks = {} /\ images = {} /\ post_images = {}
  /\ nextId = [posts |-> 1, images |-> 1, post_images |-> 1]
  /\ disk = {}
  /\ now = 1
  /\ mode = "idle" /\ cur = "" /\ work = <<>> /\ successful = 0
  /\ passTodo = <<>> /\ passQueue = <<>>
  /\ selection = [type |-> "none", items |-> <<>>]
  /\ polls = 0 /\ denied = FALSE /\ probes = NoProbes /\ fetched = <<>>
  /\ log = <<>>

Init ==
  /\ InitIndex
  /\ absFolder \in BOOLEAN
  /\ feed \in Worlds
  /\ scrape_lists = [s \in Sources |->
       [enabled |-> TRUE, last_scraped_at |-> NeverScraped, zero_result_count |-> 0]]

\* download_from_urls called with an explicit batch
StartDirect ==
  /\ mode = "idle"
  /\ \E b \in DirectBatches :
       LET w == WorkItems(b.urls, b.url_data, 1)
       IN /\ Len(log) + Len(w) <= MaxDownloads
          /\ work' = w
  /\ mode' = "direct" /\ cur' = "" /\ successful' = 0
  /\ probes' = NoProbes /\ fetched' = <<>>
  /\ UNCHANGED << dbVars, absFolder, schedVars, now, feed, log >>

\* download_from_subreddit / download_from_user called for one source, the
\* upstream returning one of the given listings
StartManualOn(listings) ==
  /\ mode = "idle"
  /\ \E s \in ManualSources, l \in listings :
       LET b == BatchOf(s, l)
           w == WorkItems(UrlsOf(b), b, 1)
       IN /\ Len(log) + Len(w) <= MaxDownloads
          /\ work' = w
          /\ cur' = s
  /\ mode' = "manual" /\ successful' = 0
  /\ probes' = NoProbes
  /\ UNCHANGED << dbVars, absFolder, schedVars, now, feed, log >>

\* a manual poll of a short listing
StartManual == StartManualOn(Listings) /\ fetched' = <<>>

\* faulty variant of RemainingItems: a failed item ends the batch
RemainingItemsAbort(w, ok) == IF ok THEN Tail(w) ELSE <<>>

\* download_from_urls: the for loop goes on to the next item whatever
\* download_image returned (it returns a boolean and raises nothing: its whole
\* body is inside try / except Exception)
RemainingItems(w, ok) == Tail(w)

\* faulty variant of CountSuccess: every attempt is counted
CountAttempt(n, ok) == n + 1

\* download_from_urls: "if self.download_image(...): successful += 1"
CountSuccess(n, ok) == IF ok THEN n + 1 ELSE n

\* one iteration of download_from_urls: download_image for the next item,
\* with a GET that does one of the given outcomes
StepOn(outcomes) ==
  /\ work # <<>>
  /\ LET it == Head(work)
         recs == ImageRecords(it.url)
     IN \E prev \in (IF recs = {} THEN {NoRecord} ELSE recs),
           net \in outcomes, h \in FetchHashes, conv \in BOOLEAN :
          LET r == DownloadImage(Db, it.url, cur, it.pd, prev, net, h, conv)
          IN /\ posts' = r.d.posts /\ permalinks' = r.d.permalinks
             /\ images' = r.d.images /\ post_images' = r.d.post_images
             /\ nextId' = r.d.nextId /\ disk' = r.d.disk
             /\ successful' = CountSuccess(successful, r.ok)
             /\ work' = RemainingItems(work, r.ok)
             /\ log' = Append(log, [pl |-> it.pd.permalink, url |-> it.url, h |-> h,
                                    ok |-> r.ok, known |-> it.known])
  /\ now' \in ClockReadings
  /\ probes' = NoProbes /\ fetched' = <<>>
  /\ UNCHANGED << absFolder, schedVars, feed, mode, cur >>

\* an iteration whose GET raises at once or serves the whole body
Step == StepOn({"ok", "refused"})

\* an iteration whose GET may also break while the body is streamed
StepFault == StepOn(NetOutcomes)

\* download_from_urls returns to the command line
Finish ==
  /\ mode \in {"direct", "manual"} /\ work = <<>>
  /\ mode' = "idle" /\ cur' = ""
  /\ probes' = NoProbes /\ fetched' = <<>>
  /\ UNCHANGED << dbVars, absFolder, schedVars, now, feed, work, successful, log >>

\* a recorded file is moved or deleted outside the program
RemoveFile ==
  /\ mode = "idle"
  /\ \E f \in disk : /\ \E i \in images : i.file_path = f.path
                     /\ disk' = disk \ {f}
  /\ probes' = NoProbes /\ fetched' = <<>>
  /\ UNCHANGED << posts, permalinks, images, post_images, nextId, absFolder,
                  schedVars, now, feed, mode, cur, work, successful, log >>

Next == StartDirect \/ StartManual \/ Step \/ Finish \/ RemoveFile

Spec == Init /\ [][Next]_vars

(* --------------------------- scheduler pass ---------------------------- *)
\* the list types scrape_from_config_list(scrape_type) goes through
PassTypes ==
  [all |-> << "subreddit", "user" >>, subreddits |-> << "subreddit" >>,
   users |-> << "user" >>]

InitSched ==
  /\ InitIndex
  /\ absFolder = FALSE
  /\ feed = {"pa"}
  /\ scrape_lists \in [Sources ->
       [enabled : BOOLEAN, last_scraped_at : {NeverScraped}, zero_result_count : {0}]]
  /\ scrape_lists["sa"].enabled

\* scrape_from_config_list(scrape_type) starts and selects its first list
StartPass ==
  /\ mode = "idle"
  /\ polls < MaxPolls
  /\ \E scrape_type \in DOMAIN PassTypes :
       LET types == PassTypes[scrape_type]
           items == GetScrapeListsFromDb(Head(types), BackoffThreshold)
       IN /\ selection' = [type |-> Head(types), items |-> items]
          /\ passQueue' = items
          /\ passTodo' = Tail(types)
  /\ mode' = "sched" /\ polls' = polls + 1
  /\ probes' = NoProbes /\ fetched' = <<>>
  /\ UNCHANGED << dbVars, absFolder, scrape_lists, denied, now, feed, cur, work,
                  successful, log >>

\* the subreddit loop is over: the users are selected
SelectNext ==
  /\ mode = "sched" /\ cur = "" /\ passQueue = <<>> /\ passTodo # <<>>
  /\ LET items == GetScrapeListsFromDb(Head(passTodo), BackoffThreshold)
     IN /\ selection' = [type |-> Head(passTodo), items |-> items]
        /\ passQueue' = items
  /\ passTodo' = Tail(passTodo)
  /\ probes' = NoProbes /\ fetched' = <<>>
  /\ UNCHANGED << dbVars, absFolder, scrape_lists, polls, denied, now, feed, mode,
                  cur, work, successful, log >>

\* the upstream lists the next source of the pass and the batch is built
PollListing ==
  /\ mode = "sched" /\ cur = "" /\ passQueue # <<>>
  /\ \E l \in Listings :
       LET b == BatchOf(Head(passQueue), l)
           w == WorkItems(UrlsOf(b), b, 1)
       IN /\ Len(log) + Len(w) <= MaxDownloads
          /\ work' = w
  /\ cur' = Head(passQueue) /\ passQueue' = Tail(passQueue)
  /\ successful' = 0 /\ denied' = FALSE
  /\ probes' = NoProbes /\ fetched' = <<>>
  /\ UNCHANGED << dbVars, absFolder, scrape_lists, passTodo, selection, polls, now,
                  feed, mode, log >>

\* the upstream refuses the next source (prawcore Forbidden): for a subreddit
\* SubredditAccessError reaches the except clause of the pass; download_from_user
\* catches it and returns 0
PollForbidden ==
  /\ mode = "sched" /\ cur = "" /\ passQueue # <<>>
  /\ IF SourceType[Head(passQueue)] = "subreddit"
       THEN cur' = "" /\ denied' = FALSE
       ELSE cur' = Head(passQueue) /\ denied' = TRUE
  /\ passQueue' = Tail(passQueue)
  /\ work' = <<>> /\ successful' = 0
  /\ probes' = NoProbes /\ fetched' = <<>>
  /\ UNCHANGED << dbVars, absFolder, scrape_lists, passTodo, selection, polls, now,
                  feed, mode, log >>

\* the poll returned: last_scraped_at and zero_result_count are updated
FinishSource ==
  /\ mode = "sched" /\ cur # "" /\ work = <<>>
  /\ now' \in ClockReadings
  /\ scrape_lists' = TrackResult(scrape_lists, cur, successful, now')
  /\ cur' = "" /\ denied' = FALSE
  /\ probes' = NoProbes /\ fetched' = <<>>
  /\ UNCHANGED << dbVars, absFolder, passTodo, passQueue, selection, polls, feed,
                  mode, work, successful, log >>

\* scrape_from_config_list returns
EndPass ==
  /\ mode = "sched" /\ cur = "" /\ passQueue = <<>> /\ passTodo = <<>>
  /\ mode' = "idle"
  /\ probes' = NoProbes /\ fetched' = <<>>
  /\ UNCHANGED << dbVars, absFolder, schedVars, now, feed, cur, work, successful, log >>

NextSched ==
  \/ StartPass \/ SelectNext \/ PollListing \/ PollForbidden \/ FinishSource
  \/ EndPass \/ Step \/ StartManual \/ Finish

SpecSched == InitSched /\ [][NextSched]_vars

(* ------------------------------- faults -------------------------------- *)
\* what the upstream holds while its connections are unreliable
FaultWorlds == { {"pa"}, {"pf"}, {"pw"}, {"px"} }

InitFault ==
  /\ InitIndex
  /\ absFolder \in BOOLEAN
  /\ feed \in FaultWorlds
  /\ scrape_lists = [s \in Sources |->
       [enabled |-> TRUE, last_scraped_at |-> NeverScraped, zero_result_count |-> 0]]

NextFault == StartDirect \/ StartManual \/ StepFault \/ Finish

SpecFault == InitFault /\ [][NextFault]_vars

(* ----------------------------- listing scan --------------------------- *)
\* what the upstream holds while long listings are scanned
ScanWorlds == { {"pb", "pa", "pe", "pm"}, {"pa", "ph", "pv", "pw"} }

\* the order in which the upstream lists these posts (newest first)
ScanOrder == << "pa", "pv", "ph", "pb", "pe", "pw", "pm" >>

\* the listings of a scan: up to MaxScan posts of the feed in upstream order
ScanListings ==
  { SelectSeq(ScanOrder, LAMBDA p : p \in some) :
      some \in { x \in SUBSET feed : Cardinality(x) <= MaxScan } }

InitScan ==
  /\ InitIndex
  /\ absFolder = FALSE
  /\ feed \in ScanWorlds
  /\ scrape_lists = [s \in Sources |->
       [enabled |-> TRUE, last_scraped_at |-> NeverScraped, zero_result_count |-> 0]]

\* a manual poll whose listing holds up to MaxScan posts
StartScan == \E l \in ScanListings : StartManualOn({l}) /\ fetched' = l

NextScan == StartScan \/ Step \/ Finish

SpecScan == InitScan /\ [][NextScan]_vars

(* ---------------------------- administration --------------------------- *)
\* what session.head(url, timeout=10) can do: answer 404, answer with any
\* other status, or raise (timeout, connection error)
ProbeOutcomes == {"404", "other", "raised"}

\* faulty variant of ConsideredDead: only a 404 answer counts
ConsideredDeadOn404(o) == o = "404"

\* check_deleted_images: "if response.status_code == 404" or "except Exception"
ConsideredDead(o) == o \in {"404", "raised"}

\* the rows check_deleted_images selects: links of images with is_deleted = 0,
\* of the posts of one subreddit when a name is given ("" for no name)
CheckedLinks(subreddit) ==
  { l \in post_images :
      /\ \E i \in images : i.id = l.image_id /\ ~i.is_deleted
      /\ subreddit # "" =>
           \E p \in posts : p.id = l.post_id /\ p.subreddit = subreddit }

\* faulty variant of MarkImagesAsDeleted: the flag is written for every row
FlagImagesByProbe(urls) ==
  { [i EXCEPT !.is_deleted = \E l \in post_images : l.url \in urls /\ l.image_id = i.id] :
      i \in images }

\* _mark_image_as_deleted for each url: UPDATE images JOIN post_images
\* SET is_deleted = 1 WHERE pi.url = url
MarkImagesAsDeleted(urls) ==
  { IF \E l \in post_images : l.url \in urls /\ l.image_id = i.id
      THEN [i EXCEPT !.is_deleted = TRUE] ELSE i : i \in images }

\* the argument of --check-deleted: "all" (no name) or the name of a source
CheckScopes == {""} \cup ManualSources

\* check_deleted_images(subreddit): every selected row is probed, the urls
\* considered dead are collected and then marked
CheckDeleted ==
  /\ mode = "idle"
  /\ \E subreddit \in CheckScopes :
       LET rows == CheckedLinks(subreddit)
       IN \E outcome \in [ { l.id : l \in rows } -> ProbeOutcomes ] :
            /\ probes' = outcome /\ fetched' = <<>>
            /\ images' = MarkImagesAsDeleted(
                 { l.url : l \in { r \in rows : ConsideredDead(outcome[r.id]) } })
  /\ mode' = "check"
  /\ UNCHANGED << posts, permalinks, post_images, nextId, disk, absFolder,
                  schedVars, now, feed, cur, work, successful, log >>

\* check_deleted_images returns to the command line
FinishCheck ==
  /\ mode = "check"
  /\ mode' = "idle"
  /\ probes' = NoProbes /\ fetched' = <<>>
  /\ UNCHANGED << dbVars, absFolder, schedVars, now, feed, cur, work, successful, log >>

NoLink == [id |-> NoRow, image_id |-> NoRow]

\* delete_post's dest_path: deleted/<name>, or deleted/<stem>_<counter><suffix>
\* with the first counter whose path is free
DeletedDest(d, name) ==
  LET plain == [pre |-> 1, dir |-> "deleted", name |-> name]
      numbered(c) == [pre |-> 1, dir |-> "deleted", name |-> name, counter |-> c]
  IN IF ~FileExists(d, plain) THEN plain
     ELSE numbered(CHOOSE c \in 1..(Cardinality(d.disk) + 1) :
                     /\ ~FileExists(d, numbered(c))
                     /\ \A k \in 1..(c - 1) : FileExists(d, numbered(k)))

\* delete_post: "if source_path.exists(): ... shutil.move"; for a .gif the
\* .mp4 at the same stem is moved as well
MoveToDeleted(d, file_path) ==
  LET mp4_path == [file_path EXCEPT !.name.ext = "mp4"]
      d1 == RenameFile(d, file_path, DeletedDest(d, file_path.name))
  IN IF ~FileExists(d, file_path) THEN d
     ELSE IF file_path.name.ext = "gif" /\ FileExists(d1, mp4_path)
       THEN RenameFile(d1, mp4_path, DeletedDest(d1, mp4_path.name))
     ELSE d1

\* delete_post(post_id) of the web interface; first is the row the
\* "SELECT image_id ... LIMIT 1" returned (NoLink for none).  The foreign
\* keys of post_images are ON DELETE CASCADE.
DeletePostRows(d, post_id, first) ==
  LET rows == { i \in d.images : i.id = first.image_id }
      d1 == [d EXCEPT !.post_images = { l \in @ : l.post_id # post_id }]
      remaining_links == { l \in d1.post_images : l.image_id = first.image_id }
      d2 == IF first # NoLink /\ rows # {} /\ remaining_links = {}
              THEN LET row == CHOOSE i \in rows : TRUE
                   IN [MoveToDeleted(d1, row.file_path) EXCEPT
                         !.images = @ \ rows,
                         !.post_images = { l \in @ : l.image_id # first.image_id }]
              ELSE d1
  IN [d2 EXCEPT !.posts = { q \in @ : q.id # post_id },
                !.post_images = { l \in @ : l.post_id # post_id }]

\* DELETE /api/delete-post/<post_id> for a post of the index
DeletePost ==
  /\ mode = "idle"
  /\ \E p \in posts :
       LET links == { l \in post_images : l.post_id = p.id }
       IN \E first \in (IF links = {} THEN {NoLink} ELSE links) :
            LET d == DeletePostRows(Db, p.id, first)
            IN /\ posts' = d.posts /\ images' = d.images
               /\ post_images' = d.post_images /\ disk' = d.disk
  /\ probes' = NoProbes /\ fetched' = <<>>
  /\ UNCHANGED << permalinks, nextId, absFolder, schedVars, now, feed, mode, cur,
                  work, successful, log >>

\* what the upstream holds while the index is administered
AdminWorlds == { {"pm", "pn"}, {"pa", "pe"}, {"pg"} }

InitAdmin ==
  /\ InitIndex
  /\ absFolder \in BOOLEAN
  /\ feed \in AdminWorlds
  /\ scrape_lists = [s \in Sources |->
       [enabled |-> TRUE, last_scraped_at |-> NeverScraped, zero_result_count |-> 0]]

NextAdmin ==
  \/ StartDirect \/ StartManual \/ Step \/ Finish \/ CheckDeleted \/ FinishCheck
  \/ DeletePost

SpecAdmin == InitAdmin /\ [][NextAdmin]_vars

(* ------------------------------- claims -------------------------------- *)
Events == { log[i] : i \in 1..Len(log) }

\* the posts row of a permalink, and the post_images rows of that post
PostRows(pl) == { r \in posts : r.permalink = pl }
LinksOf(pl) == { l \in post_images : \E r \in PostRows(pl) : l.post_id = r.id }
LinksOfPair(pl, url) == { l \in LinksOf(pl) : l.url = url }

\* C1: for any two successfully ingested items of posts whose fetched bytes
\* are identical, exactly one images row has that hash and each item's own
\* (post, image, url) link row exists.
C1_FingerprintUniqueness ==
  \A i, j \in 1..Len(log) :
    (i # j /\ log[i].ok /\ log[j].ok /\ log[i].h = log[j].h
       /\ log[i].pl # "" /\ log[j].pl # "")
    => /\ Cardinality({ r \in images : r.file_hash = log[i].h }) = 1
       /\ \A k \in {i, j} :
            \E l \in LinksOfPair(log[k].pl, log[k].url) :
              \E r \in images : r.id = l.image_id /\ r.file_hash = log[k].h

HashesOfPair(pl, url) == { e.h : e \in { x \in Events : x.ok /\ x.pl = pl /\ x.url = url } }

C3_FirstIngestCounts ==
  (/\ Len(log) \in {1, 2}
   /\ log[1].ok /\ log[1].pl # ""
   /\ Len(log) = 2 => log[2] = [log[1] EXCEPT !.known = log[2].known])
  => /\ Cardinality(images) = 1 /\ \A r \in images : r.file_hash = log[1].h
     /\ Cardinality(posts) = 1 /\ \A r \in posts : r.permalink = log[1].pl
     /\ Cardinality(post_images) = 1

\* C4: no download_image call is made for a post whose permalink was already
\* in the permalinks table when the post was presented.
C4_PermalinkSkip == \A e \in Events : ~e.known

\* a selection was just made and no source of it has been polled yet
FreshSelection ==
  mode = "sched" /\ cur = "" /\ selection.type # "none" /\ passQueue = selection.items

\* C5: a source whose zero_result_count has reached the threshold is not in
\* the selection of a pass.
C5_BackoffExcluded ==
  FreshSelection
  => \A i \in 1..Len(selection.items) :
       scrape_lists[selection.items[i]].zero_result_count < BackoffThreshold

\* C6: when a poll of a source whose counter has reached the threshold ends
\* with at least one ingested item, in a pass or from the command line, the
\* counter is 0 afterwards.
C6_ResetOnYield ==
  [][ (/\ cur # "" /\ cur' = "" /\ work = <<>>
       /\ successful >= 1
       /\ scrape_lists[cur].zero_result_count >= BackoffThreshold)
      => scrape_lists'[cur].zero_result_count = 0 ]_vars

\* C7: a successful download_image of bytes whose images row names a file
\* that is no longer on disk leaves exactly one row with that hash, and the
\* row's path names a file on disk holding the bytes just fetched.
C7_RepairPath ==
  [][ (/\ Len(log') = Len(log) + 1
       /\ log'[Len(log')].ok
       /\ \E r \in images : r.file_hash = log'[Len(log')].h
                            /\ ~\E f \in disk : f.path = r.file_path)
      => /\ Cardinality({ r \in images' : r.file_hash = log'[Len(log')].h }) = 1
         /\ \A r \in images' :
              r.file_hash = log'[Len(log')].h
              => \E f \in disk' : f.path = r.file_path /\ f.data.h = r.file_hash ]_vars

\* the URLs of the valid items of a catalogue post that carry a media URL
ValidItemUrls(p) ==
  { Catalogue[p].items[k].u :
      k \in { n \in 1..Len(Catalogue[p].items) :
                /\ Catalogue[p].items[n].status = "valid"
                /\ Catalogue[p].items[n].u # NoUrl } }

HasValidItem(p) ==
  \E k \in 1..Len(Catalogue[p].items) : Catalogue[p].items[k].status = "valid"

\* only these URLs are fetched or linked for post p
OnlyFetches(p, urls) ==
  /\ \A e \in Events : e.pl = Catalogue[p].permalink => e.url \in urls
  /\ \A l \in LinksOf(Catalogue[p].permalink) : l.url \in urls

\* C8 as stated: a post with at least one valid gallery item is fetched and
\* linked through gallery URLs only.
C8_GalleryExclusiveAnyValid ==
  \A p \in PostNames : HasValidItem(p) => OnlyFetches(p, ValidItemUrls(p))

\* C8 (amended): a post whose gallery yields at least one usable URL (a valid
\* item that carries a media URL) is fetched and linked through those URLs
\* only, never through its primary or video URL.
C8_GalleryExclusive ==
  \A p \in PostNames : ValidItemUrls(p) # {} => OnlyFetches(p, ValidItemUrls(p))

\* the gallery post was polled from an author listing and both its gallery
\* URLs are linked
C8_Witness ==
  /\ cur = "usr" /\ work = <<>>
  /\ \A u \in ValidItemUrls("pg") : \E e \in Events : e.pl = "pg" /\ e.url = u /\ e.ok
  /\ LinksOf("pg") # {}

\* C9: a gallery post all of whose valid items were fetched successfully has
\* as many link rows as valid items.
C9_LinksPerValidItem ==
  \A p \in PostNames :
    (/\ ValidItemUrls(p) # {}
     /\ \A u \in ValidItemUrls(p) : \E e \in Events : e.pl = Catalogue[p].permalink /\ e.url = u
     /\ \A e \in Events : e.pl = Catalogue[p].permalink => e.ok
     /\ \A k \in 1..Len(work) : work[k].pd.permalink # Catalogue[p].permalink)
    => Cardinality(LinksOf(Catalogue[p].permalink))
         = Cardinality({ k \in 1..Len(Catalogue[p].items) :
                           Catalogue[p].items[k].status = "valid" })

SubredditRefused ==
  /\ mode = "sched" /\ cur = "" /\ cur' = ""
  /\ passQueue # <<>> /\ passQueue' = Tail(passQueue)

\* the step that ends a poll of a user that the upstream refused
UserRefusedEnds == denied /\ cur # "" /\ cur' = ""

\* C11: a poll that the upstream refuses (access denied) leaves the source's
\* zero_result_count as it was, for a subreddit and for a user.
C11_ForbiddenKeepsCounter ==
  [][ /\ SubredditRefused
        => scrape_lists'[Head(passQueue)].zero_result_count
             = scrape_lists[Head(passQueue)].zero_result_count
      /\ UserRefusedEnds
        => scrape_lists'[cur].zero_result_count = scrape_lists[cur].zero_result_count
    ]_vars

\* C12: a poll that the upstream refuses still sets the source's
\* last_scraped_at to the current time.
C12_ForbiddenSetsLastPolled ==
  [][ /\ SubredditRefused => scrape_lists'[Head(passQueue)].last_scraped_at = now'
      /\ UserRefusedEnds => scrape_lists'[cur].last_scraped_at = now'
    ]_vars

\* C13: the counter download_from_urls returns starts at 0 with each batch,
\* grows by one exactly with each download_image call that returned True, and
\* so never exceeds the number of calls made.
C13_BatchResult ==
  /\ [](successful <= Len(log))
  /\ [][ /\ Len(log') = Len(log) + 1
           => successful' = successful + (IF log'[Len(log')].ok THEN 1 ELSE 0)
         /\ (mode = "idle" /\ mode' # "idle") => successful' = 0
         /\ (Len(log') = Len(log) /\ mode' = mode /\ cur' = cur)
           => successful' = successful
       ]_vars

\* a poll whose only item was a pure duplicate of a stored artifact (the
\* new file was discarded) returns 1
C13_Witness ==
  /\ mode = "manual" /\ work = <<>> /\ successful = 1
  /\ Len(log) = 2 /\ log[1].ok /\ log[2].ok
  /\ log[1].h = log[2].h /\ log[1].pl # log[2].pl
  /\ absFolder /\ Cardinality(images) = 1 /\ Cardinality(disk) = 1

\* C14: every download_image call, failed or not, ends with a boolean and
\* the batch goes on: the call was made for the first pending item, the
\* items behind it are all still pending and the operation in progress is
\* the same.
C14_FailureDoesNotAbort ==
  [][ Len(log') = Len(log) + 1
      => /\ work # <<>> /\ work' = Tail(work)
         /\ log'[Len(log')].url = Head(work).url
         /\ log'[Len(log')].ok \in BOOLEAN
         /\ mode' = mode /\ cur' = cur
    ]_vars

\* the first item of a gallery batch failed and the second one was attempted
C14_Witness ==
  /\ Len(log) = 2 /\ ~log[1].ok
  /\ log[1].pl = "pg" /\ log[1].url = "ua"
  /\ log[2].pl = "pg" /\ log[2].url = "ub" /\ log[2].ok

\* the files a step left on disk that were not there before and that are an
\* unconverted animated image: its conversion was attempted and failed
FailedConversions ==
  { f \in disk' \ disk : f.path.name.ext = "gif" /\ f.data.kind = "raw" }

\* C15: when the conversion of a downloaded GIF fails, download_image
\* returns True, the GIF stays on disk and it is indexed: an images row with
\* its hash names the GIF's path and, for an item of a post, the link exists.
C15_ConversionFailureIndexed ==
  [][ \A f \in FailedConversions :
        (Len(log') = Len(log) + 1 /\ f.data.h = log'[Len(log')].h)
        => LET e == log'[Len(log')]
           IN /\ e.ok
              /\ \E r \in images' :
                   /\ r.file_hash = e.h /\ r.file_path = f.path
                   /\ e.pl # ""
                      => \E l \in post_images', q \in posts' :
                           /\ q.permalink = e.pl /\ l.post_id = q.id
                           /\ l.image_id = r.id /\ l.url = e.url
    ]_vars

\* the prior records of the URL the next download_image looks up
PriorRecords == IF work = <<>> THEN {} ELSE ImageRecords(Head(work).url)

\* the pre-fetch lookup can only find a soft-deleted record whose file name
\* carries the deleted marker
RestoreCase ==
  /\ PriorRecords # {}
  /\ \A r \in PriorRecords : r.is_deleted /\ r.filename.marked

\* C16: when the lookup finds a soft-deleted prior record and the file name
\* produced carries the deleted marker, a successful re-fetch leaves the
\* record with a path whose name has no marker, the file on disk at that
\* path, and the soft-deleted flag cleared.
C16_RestoreClearsFlag ==
  [][ (/\ RestoreCase
       /\ Len(log') = Len(log) + 1
       /\ log'[Len(log')].ok)
      => \E r \in PriorRecords : \E n \in images' :
           /\ n.id = r.id
           /\ ~n.file_path.name.marked
           /\ \E f \in disk' : f.path = n.file_path
           /\ ~n.is_deleted ]_vars

\* the links the liveness check that has just run probed, and what the
\* probes of one URL answered
ProbedLinks == { l \in post_images : l.id \in DOMAIN probes' }
AnswersOf(url) == { probes'[l.id] : l \in { x \in ProbedLinks : x.url = url } }
UrlsLinkedTo(i) == { l.url : l \in { x \in post_images : x.image_id = i.id } }

\* C17: after a liveness check, every artifact that was not soft-deleted and
\* has a probed link whose probe answered 404 or raised is soft-deleted, and
\* every probed artifact whose URLs were all answered otherwise keeps its
\* flag clear.
C17_FailClosed ==
  [][ probes' # NoProbes =>
        \A i \in images : ~i.is_deleted =>
          \A n \in images' : n.id = i.id =>
            /\ (\E l \in ProbedLinks : /\ l.image_id = i.id
                                       /\ probes'[l.id] \in {"404", "raised"})
                 => n.is_deleted
            /\ (/\ \E l \in ProbedLinks : l.image_id = i.id
                /\ \A u \in UrlsLinkedTo(i) : AnswersOf(u) \subseteq {"other"})
                 => ~n.is_deleted ]_vars

\* a check has just flagged an artifact whose probe raised and left alone an
\* artifact whose probe was answered
C17_Witness ==
  \E l1, l2 \in post_images :
    /\ l1.id \in DOMAIN probes /\ probes[l1.id] = "raised"
    /\ l2.id \in DOMAIN probes /\ probes[l2.id] = "other"
    /\ \E i \in images : i.id = l1.image_id /\ i.is_deleted
    /\ \E i \in images : i.id = l2.image_id /\ ~i.is_deleted

\* the posts a purge step removes, and the links other posts hold
PurgedPosts == { q \in posts : ~\E n \in posts' : n.id = q.id }
LinkedFromOtherPost(i, q) ==
  \E l \in post_images : l.image_id = i.id /\ l.post_id # q.id

\* C18: a purge of a post leaves none of the post's links, removes an images
\* row only when no link of another post references it, and removes the post;
\* an artifact still linked from another post keeps its row and its file.
C18_PurgeCascade ==
  [][ \A q \in PurgedPosts :
        /\ ~\E l \in post_images' : l.post_id = q.id
        /\ \A i \in images :
             /\ (~\E n \in images' : n.id = i.id) => ~LinkedFromOtherPost(i, q)
             /\ LinkedFromOtherPost(i, q) =>
                  /\ i \in images'
                  /\ \A f \in disk : f.path = i.file_path => f \in disk' ]_vars

\* the links a step creates
NewLinks == { l \in post_images' : ~\E o \in post_images : o.id = l.id }

PollCompletes == cur # "" /\ cur' = "" /\ work = <<>> /\ ~denied

\* C20: a completed poll that ingested nothing raises the source's
\* zero_result_count by exactly one, a completed poll that ingested something
\* sets it to 0, and no other step changes a counter: the counter is the number
\* of zero-yield polls since the last poll that ingested an item.
C20_CounterCountsZeroPolls ==
  [][ /\ (PollCompletes /\ successful = 0)
           => scrape_lists'[cur].zero_result_count
                = scrape_lists[cur].zero_result_count + 1
      /\ (PollCompletes /\ successful >= 1)
           => scrape_lists'[cur].zero_result_count = 0
      /\ \A s \in Sources :
           (~(PollCompletes /\ s = cur) /\ ~(denied /\ s = cur))
             => scrape_lists'[s].zero_result_count
                  = scrape_lists[s].zero_result_count ]_vars

\* the step that ends the poll of source cur inside a scheduler pass
PassPollReturns == mode = "sched" /\ cur # "" /\ cur' = ""

\* C21: every poll of a source in a scheduler pass, one that ingested items,
\* one that ingested none and one the upstream refused, leaves the source's
\* last_scraped_at at the current time, whatever happens to the counter.
C21_PollSetsLastPolled ==
  [][ /\ PassPollReturns => scrape_lists'[cur].last_scraped_at = now'
      /\ SubredditRefused => scrape_lists'[Head(passQueue)].last_scraped_at = now'
    ]_vars

\* C22: a download_image call that returns False leaves the posts, images and
\* post_images rows (every file_path included) as they were, and the batch
\* goes on to its next item.
C22_FailureRecordsNothing ==
  [][ (Len(log') = Len(log) + 1 /\ ~log'[Len(log')].ok)
      => /\ posts' = posts
         /\ images' = images
         /\ post_images' = post_images
         /\ work' = Tail(work) ]_vars

\* C23: in every reachable state no images row records the path of a file
\* whose byte stream was not written to the end.
C23_NoPartialFileIndexed ==
  \A i \in images : \A f \in disk :
    f.path = i.file_path => f.data.kind # "partial"

\* the images rows with the hash of the bytes the next step fetches whose
\* recorded file is on disk
PresentWithHash(h) ==
  { r \in images : r.file_hash = h /\ \E f \in disk : f.path = r.file_path }

\* C24: when a successful download_image fetched bytes whose hash an images
\* row already has and that row's recorded file is on disk, the row is left
\* unchanged, its file is still on disk, and no new file remains.
C24_TrueDuplicateReuses ==
  [][ (/\ Len(log') = Len(log) + 1
       /\ log'[Len(log')].ok
       /\ PresentWithHash(log'[Len(log')].h) # {})
      => /\ \A r \in PresentWithHash(log'[Len(log')].h) : r \in images'
         /\ disk' = disk ]_vars

\* what a post offers to each step of the resolution
HasUsableItem(post) ==
  \E k \in 1..Len(post.items) :
    post.items[k].status = "valid" /\ post.items[k].u # NoUrl
FirstUsableItem(post) ==
  post.items[CHOOSE k \in 1..Len(post.items) :
               /\ post.items[k].status = "valid" /\ post.items[k].u # NoUrl
               /\ \A j \in 1..(k - 1) :
                    ~(post.items[j].status = "valid" /\ post.items[j].u # NoUrl)].u
HasMetadataVideo(post) ==
  \E k \in 1..Len(post.items) :
    /\ post.items[k].status = "valid" /\ post.items[k].e = "RedditVideo"
    /\ post.items[k].mp4 # NoUrl /\ IsVideoUrl(post.items[k].mp4)
HasVideo(post) ==
  post.fallback # NoUrl \/ IsVideoUrl(post.url) \/ HasMetadataVideo(post)

\* the post is new to the index: its permalink is not recorded and none of
\* the catalogue's URLs it can resolve to has a link
FreshPost(post) ==
  /\ ~post.is_self
  /\ ~IsPostDownloaded(post.permalink)
  /\ \A u \in Urls : ImageRecords(u) = {}

\* C25: for a new post both listing functions resolve by first match in the
\* order gallery, video, image: with a usable gallery item the entry carries
\* the gallery URLs; without one, a post with a video (a fallback URL first)
\* resolves to the video and not to its primary URL as an image; without
\* either, an image-looking primary URL is taken; a post matching none of the
\* three yields no entry.
C25_ResolutionOrder ==
  \A p \in PostNames : \A s \in ManualSources :
    LET post == Catalogue[p]
        b == BatchOf(s, << p >>)
    IN FreshPost(post) =>
         IF HasUsableItem(post)
           THEN /\ Len(b) = 1
                /\ b[1].url = FirstUsableItem(post)
                /\ b[1].all_urls # <<>>
                /\ \A k \in 1..Len(b[1].all_urls) :
                     b[1].all_urls[k] = ","
                     \/ \E j \in 1..Len(post.items) :
                          /\ post.items[j].status = "valid"
                          /\ post.items[j].u = b[1].all_urls[k]
         ELSE IF HasVideo(post)
           THEN /\ Len(b) = 1
                /\ b[1].all_urls = <<>>
                /\ IsVideoUrl(b[1].url)
                /\ post.fallback # NoUrl => b[1].url = post.fallback
         ELSE IF IsImageUrl(post.url)
           THEN /\ Len(b) = 1
                /\ b[1].all_urls = <<>>
                /\ b[1].url = post.url
         ELSE b = <<>>

\* a manual poll has built its batch from a post whose gallery descriptor
\* has no usable item and whose primary URL looks like an image: the item is
\* the video
C25_Witness ==
  /\ mode = "manual" /\ work # <<>>
  /\ Head(work).pd.permalink \in {"pw", "px"}
  /\ Head(work).url = "uv"
  /\ IsImageUrl(Catalogue[Head(work).pd.permalink].url)

\* C26: a liveness check leaves the posts, post_images and permalinks rows
\* and every file as they were; every images row is still there with all its
\* columns but is_deleted unchanged, and a flag that was set stays set.
C26_CheckOnlySetsFlags ==
  [][ mode' = "check" =>
        /\ posts' = posts /\ post_images' = post_images
        /\ permalinks' = permalinks /\ disk' = disk
        /\ Cardinality(images') = Cardinality(images)
        /\ \A i \in images : \E n \in images' :
             /\ n = [i EXCEPT !.is_deleted = n.is_deleted]
             /\ i.is_deleted => n.is_deleted ]_vars

\* a check is running that probed one link while another artifact, flagged
\* by an earlier check and not probed now, keeps its flag and its file
C26_Witness ==
  /\ mode = "check"
  /\ Cardinality(DOMAIN probes) = 1
  /\ \E i \in images :
       /\ i.is_deleted
       /\ \A l \in post_images : l.image_id = i.id => l.id \notin DOMAIN probes
       /\ \E f \in disk : f.path = i.file_path

\* C27: after every download_image call that returned True an images row
\* with the hash of the fetched bytes exists and the path it records names a
\* file on disk that was written to the end.
C27_SuccessMeansFileOnDisk ==
  [][ (Len(log') = Len(log) + 1 /\ log'[Len(log')].ok)
      => \E r \in images' :
           /\ r.file_hash = log'[Len(log')].h
           /\ \E f \in disk' : f.path = r.file_path /\ f.data.kind # "partial" ]_vars

\* C28: a download_image call never overwrites or deletes a file that is
\* the recorded storage path of an images row whose hash differs from the
\* hash of the bytes the call fetched.
C28_NoForeignFileTouched ==
  [][ Len(log') = Len(log) + 1
      => \A r \in images :
           r.file_hash # log'[Len(log')].h
           => \A f \in disk : f.path = r.file_path => f \in disk' ]_vars

\* the scan looks at a post: it is no text post and its permalink is not
\* recorded as processed
Examined(p) ==
  /\ ~Catalogue[p].is_self
  /\ ~(Catalogue[p].permalink # "" /\ Catalogue[p].permalink \in permalinks)
\* what an examined post resolves to
ResolvedKind(p) ==
  IF HasUsableItem(Catalogue[p]) THEN "gallery"
  ELSE IF HasVideo(Catalogue[p]) THEN "video"
  ELSE IF IsImageUrl(Catalogue[p].url) THEN "image"
  ELSE "none"
ResolvedUrl(p) ==
  IF ResolvedKind(p) = "video" THEN ExtractVideoUrl(Catalogue[p]) ELSE Catalogue[p].url
HasLink(u) == \E l \in post_images : l.url = u
\* an examined video or image post whose resolved URL has a link
Stopper(p) ==
  /\ Examined(p)
  /\ ResolvedKind(p) \in {"video", "image"}
  /\ HasLink(ResolvedUrl(p))
\* position of the first stopper of a listing (past its end when none)
StopAt(l) ==
  IF \E k \in 1..Len(l) : Stopper(l[k])
    THEN CHOOSE k \in 1..Len(l) : Stopper(l[k]) /\ \A j \in 1..(k - 1) : ~Stopper(l[j])
    ELSE Len(l) + 1
\* the posts a poll of this source is to keep, in listing order
KeptPosts(s, l) ==
  LET last == IF SourceType[s] = "subreddit" THEN StopAt(l) - 1 ELSE Len(l)
      Wanted(p) == Examined(p) /\ ResolvedKind(p) # "none"
  IN SelectSeq(SubSeq(l, 1, last), Wanted)
BatchPermalinks(b) == [i \in 1..Len(b) |-> b[i].permalink]

\* C29: a collection poll keeps the examined media posts that precede the
\* first video or image post whose resolved URL already has a link, and
\* leaves out that post and every later one; a gallery post never ends the
\* scan, and an author poll keeps every examined media post of the listing.
\* The items of a poll that has just started are those of the kept posts,
\* and its batch is their entries in listing order.
C29_StopScan ==
  (mode = "manual" /\ fetched # <<>>)
    => /\ { work[i].pd.permalink : i \in 1..Len(work) }
            = { KeptPosts(cur, fetched)[i] : i \in 1..Len(KeptPosts(cur, fetched)) }
       /\ BatchPermalinks(BatchOf(cur, fetched)) = KeptPosts(cur, fetched)

\* a collection poll has just scanned a listing of three new posts whose
\* second is a stopper: its only item is the first post
C29_Witness ==
  /\ mode = "manual" /\ SourceType[cur] = "subreddit"
  /\ Len(fetched) = 3
  /\ \A k \in 1..3 : Examined(fetched[k]) /\ ResolvedKind(fetched[k]) # "none"
  /\ StopAt(fetched) = 2
  /\ ~Stopper(fetched[3])
  /\ Len(work) = 1 /\ work[1].pd.permalink = fetched[1]

\* the permalinks of the posts that have a link to an artifact
IndexedPermalinks ==
  { p.permalink : p \in { q \in posts : \E l \in post_images : l.post_id = q.id } }
\* the posts rows a step inserts
InsertedPosts ==
  { r \in posts' : ~\E q \in posts : q.permalink = r.permalink }

\* C30: the permalink of every post that has an indexed item is recorded as
\* processed; no step, a purge included, removes a recorded permalink; a poll
\* whose listing holds a post with a recorded permalink builds no entry for
\* it; and the items a poll starts with, and the posts rows a poll inserts,
\* are of posts whose permalink was not recorded before.
C30_IngestedAtMostOnce ==
  /\ [](/\ \A pl \in IndexedPermalinks : pl # "" => pl \in permalinks
        /\ \A p \in feed : \A s \in ManualSources :
             Catalogue[p].permalink \in permalinks => BatchOf(s, << p >>) = <<>>)
  /\ [][ /\ permalinks \subseteq permalinks'
         /\ (mode = "idle" /\ mode' = "manual")
              => \A i \in 1..Len(work') : work'[i].pd.permalink \notin permalinks
         /\ mode = "manual"
              => \A r \in InsertedPosts : r.permalink \notin permalinks ]_vars

\* a post with an indexed item was purged, its permalink is still recorded,
\* and the poll that has started afterwards has nothing to fetch
C30_Witness ==
  /\ mode = "manual" /\ work = <<>>
  /\ \E i \in 1..Len(log) :
       /\ log[i].ok /\ log[i].pl # "" /\ log[i].pl \in feed
       /\ log[i].pl \in permalinks
       /\ ~\E q \in posts : q.permalink = log[i].pl
       /\ BatchOf(cur, << log[i].pl >>) = <<>>

====
